---- MODULE Spec2Model ----
(***************************************************************************)
(* Model of judge/views/contests.py: joining and leaving a contest         *)
(* (ContestJoin.get, ContestLeave.get) over a participation store shared   *)
(* by concurrent requests, and the contest ranking (contest_ranking_list,  *)
(* get_participation_ranking_profile, get_contest_ranking_list).           *)
(***************************************************************************)
EXTENDS Integers, Sequences, FiniteSets, TLC

VARIABLES now, parts, current, req, subs, out, build

vars == <<now, parts, current, req, subs, out, build>>

\* what the ranking reads and writes beside the participations
rank == <<subs, out, build>>

(***************************************************************************)
(* Bounds of the model.                                                    *)
(***************************************************************************)
\* number of join requests served in one behaviour
NumReqs == 2
\* number of join requests racing for virtual ids of one (contest, user)
NumRacers == 3
\* the clock runs from 0 to MaxTime
MaxTime == 3

\* "profile.current_contest is None": no participation has id 0
NoPart == 0

Users == {1, 2}
Contests == {1, 2, 3}
Reqs == 1..NumReqs

(***************************************************************************)
(* The contests of the store. Contest 1 is open to everybody and ends      *)
(* early; contest 2 is restricted to an organization, has a per-user time  *)
(* limit and user 1 as organizer; contest 3 is not public.                 *)
(***************************************************************************)
StartTime(c) == IF c = 2 THEN 1 ELSE 0
EndTime(c) == IF c = 1 THEN 1 ELSE MaxTime + 2
HasTimeLimit(c) == c = 2
TimeLimit(c) == 1
IsPublic(c) == c # 3
IsPrivate(c) == c = 2
Organizers(c) == IF c = 2 THEN {1} ELSE {}
\* the users that belong to one of the contest's organizations
OrgMembers(c) == IF c = 2 THEN {1} ELSE {}
\* user.has_perm(...): nobody holds a staff permission
HasPerm(u, perm) == FALSE

\* Contest.can_join: the contest has started
CanJoin(c, t) == StartTime(c) <= t
\* Contest.ended
ContestEnded(c, t) == EndTime(c) < t
\* ContestParticipation.ended: the participation's own time is used up
PartEndTime(p) ==
    IF HasTimeLimit(p.contest) THEN p.real_start + TimeLimit(p.contest)
    ELSE EndTime(p.contest)
PartEnded(p, t) == PartEndTime(p) < t

(***************************************************************************)
(* The participation store. parts[i] is the row with id i; rows are only   *)
(* ever appended. The store refuses a second row with the same             *)
(* (contest, user, virtual).                                               *)
(***************************************************************************)
NewPart(c, u, v, t) ==
    [contest |-> c, user |-> u, virtual |-> v, spectate |-> FALSE,
     real_start |-> t, score |-> 0, cumtime |-> 0]

Ids(ps) == 1..Len(ps)

\* ContestParticipation.objects.filter(contest=contest, user=profile)
RowsOf(ps, c, u) == {i \in Ids(ps) : ps[i].contest = c /\ ps[i].user = u}

\* a plausible slip: the start taken into the key, so that no create conflicts
UniqueKeyWithStart(p) == <<p.contest, p.user, p.virtual, p.real_start, p.spectate>>

\* the store's uniqueness constraint
UniqueKey(p) == <<p.contest, p.user, p.virtual>>

\* the store raises IntegrityError on create
Conflicts(ps, row) == \E i \in Ids(ps) : UniqueKey(ps[i]) = UniqueKey(row)

SetMax(S) == CHOOSE x \in S : \A y \in S : y <= x

\* a plausible slip: counting the rows instead of taking their maximum
NextVirtualIdByCount(ps, c, u) == Cardinality(RowsOf(ps, c, u)) + 1

\* a plausible slip: the id of a first virtual participation, whatever the store holds
NextVirtualIdFirst(ps, c, u) == 1

\* (aggregate(Max('virtual')) or 0) + 1
NextVirtualId(ps, c, u) ==
    LET vs == {ps[i].virtual : i \in RowsOf(ps, c, u)}
        m == IF vs = {} THEN 0 ELSE SetMax(vs)
    IN  (IF m # 0 THEN m ELSE 0) + 1

\* the participations of a user
RowsOfUser(ps, u) == {i \in Ids(ps) : ps[i].user = u}

\* get_or_create's lookup: contest=contest, user=profile, virtual=0
LiveRows(ps, c, u) == {i \in RowsOf(ps, c, u) : ps[i].virtual = 0}

(***************************************************************************)
(* ContestMixin.get_object for an authenticated user whose profile was     *)
(* loaded with current_contest_id = cur.                                   *)
(***************************************************************************)
GetObject(ps, u, c, cur) ==
    IF cur # NoPart /\ ps[cur].contest = c THEN "ok"
    ELSE IF /\ ~IsPublic(c)
            /\ ~HasPerm(u, "judge.see_private_contest")
            /\ (~HasPerm(u, "judge.edit_own_contest") \/ u \notin Organizers(c))
         THEN "Http404"
    ELSE IF /\ IsPrivate(c)
            /\ ~HasPerm(u, "judge.edit_all_contest")
            /\ u \notin OrgMembers(c)
         THEN "PrivateContestError"
    ELSE "ok"

\* a plausible slip: only another contest counts as "already in a contest"
InOtherContest(ps, cur, c) == cur # NoPart /\ ps[cur].contest # c

\* profile.current_contest is not None
AlreadyInContest(ps, cur, c) == cur # NoPart

\* a plausible slip: the test on "created" inverted
TimeLimitOnCreate(created, p, t) == created /\ PartEnded(p, t)

\* not created and participation.ended
TimeLimitExceeded(created, p, t) == ~created /\ PartEnded(p, t)

(***************************************************************************)
(* Requests. A request is idle until it is received; its record holds the  *)
(* handler's local variables; once the handler has returned, only what it  *)
(* answered (outcome) and the participation it joined (part) are kept.     *)
(***************************************************************************)
IdleReq ==
    [pc |-> "idle", user |-> 0, contest |-> 0, ended |-> FALSE,
     vid |-> 0, part |-> NoPart, created |-> FALSE, outcome |-> "none"]

\* no ranking has been asked for yet
NoOut ==
    [view |-> "none", viewer |-> 0, contest |-> 0, listed |-> <<>>,
     result |-> [type |-> "None"], status |-> "none",
     users |-> [type |-> "None"], problems |-> [type |-> "None"]]

\* no ranking is being built
NoBuild == [pc |-> "idle", contest |-> 0, data |-> <<>>, rows |-> <<>>, fault |-> "none"]

\* the handler has returned
Done(outcome, part) == [IdleReq EXCEPT !.pc = "done", !.outcome = outcome, !.part = part]

Init ==
    /\ now = 0
    /\ parts = <<>>
    /\ current = [u \in Users |-> NoPart]
    /\ req = [r \in Reqs |-> IdleReq]
    /\ subs = {}
    /\ out = NoOut
    /\ build = NoBuild

\* time passes
Tick ==
    /\ now < MaxTime
    /\ now' = now + 1
    /\ UNCHANGED <<parts, current, req, rank>>

\* ContestJoin.get up to the branch on contest.ended
Begin(r, u, c) ==
    /\ req[r].pc = "idle"
    /\ \A q \in DOMAIN req : q < r => req[q].pc # "idle"
    /\ LET cur == current[u]
           access == GetObject(parts, u, c, cur)
           outcome == IF access # "ok" THEN access
                      ELSE IF ~CanJoin(c, now) THEN "NotOngoing"
                      ELSE IF AlreadyInContest(parts, cur, c) THEN "AlreadyInContest"
                      ELSE "none"
           ended == ContestEnded(c, now)
       IN  req' = [req EXCEPT ![r] =
                     IF outcome # "none" THEN Done(outcome, NoPart)
                     ELSE [@ EXCEPT !.user = u, !.contest = c, !.ended = ended,
                                    !.pc = IF ended THEN "read" ELSE "live_get"]]
    /\ UNCHANGED <<now, parts, current, rank>>

\* the virtual branch: virtual_id = (MAX(virtual) or 0) + 1
ReadMax(r) ==
    /\ req[r].pc = "read"
    /\ req' = [req EXCEPT ![r].vid = NextVirtualId(parts, req[r].contest, req[r].user),
                          ![r].pc = "insert"]
    /\ UNCHANGED <<now, parts, current, rank>>

\* a plausible slip: the create tried again with the id that has just lost
SameIdAgain == "insert"

\* except IntegrityError: pass, and the loop starts over at the read
AfterConflict == "read"

\* the virtual branch: create, and try again on IntegrityError
Insert(r) ==
    /\ req[r].pc = "insert"
    /\ LET row == NewPart(req[r].contest, req[r].user, req[r].vid, now)
       IN  IF Conflicts(parts, row)
           THEN /\ req' = [req EXCEPT ![r].pc = AfterConflict]
                /\ UNCHANGED parts
           ELSE /\ parts' = Append(parts, row)
                /\ req' = [req EXCEPT ![r].part = Len(parts) + 1,
                                      ![r].pc = "set_current"]
    /\ UNCHANGED <<now, current, rank>>

\* the live branch: get_or_create's get
LiveGet(r) ==
    /\ req[r].pc = "live_get"
    /\ LET found == LiveRows(parts, req[r].contest, req[r].user)
       IN  IF found # {}
           THEN req' = [req EXCEPT ![r].part = CHOOSE i \in found : TRUE,
                                   ![r].created = FALSE,
                                   ![r].pc = "live_save"]
           ELSE req' = [req EXCEPT ![r].pc = "live_create"]
    /\ UNCHANGED <<now, parts, current, rank>>

\* the live branch: get_or_create's create; on IntegrityError it gets again
LiveCreate(r) ==
    /\ req[r].pc = "live_create"
    /\ LET row == NewPart(req[r].contest, req[r].user, 0, now)
       IN  IF Conflicts(parts, row)
           THEN /\ req' = [req EXCEPT
                             ![r].part = CHOOSE i \in LiveRows(parts, req[r].contest,
                                                               req[r].user) : TRUE,
                             ![r].created = FALSE,
                             ![r].pc = "live_save"]
                /\ UNCHANGED parts
           ELSE /\ parts' = Append(parts, row)
                /\ req' = [req EXCEPT ![r].part = Len(parts) + 1,
                                      ![r].created = TRUE,
                                      ![r].pc = "live_save"]
    /\ UNCHANGED <<now, current, rank>>

\* the live branch: participation.spectate = ...; participation.save(); then
\* the time limit test
LiveSave(r) ==
    /\ req[r].pc = "live_save"
    /\ parts' = [parts EXCEPT ![req[r].part].spectate =
                                 req[r].user \in Organizers(req[r].contest)]
    /\ IF TimeLimitExceeded(req[r].created, parts[req[r].part], now)
       THEN req' = [req EXCEPT ![r] = Done("TimeLimitExceeded", NoPart)]
       ELSE req' = [req EXCEPT ![r].pc = "set_current"]
    /\ UNCHANGED <<now, current, rank>>

\* profile.current_contest = participation; profile.save(); redirect
SetCurrent(r) ==
    /\ req[r].pc = "set_current"
    /\ current' = [current EXCEPT ![req[r].user] = req[r].part]
    /\ req' = [req EXCEPT ![r] = Done("joined", req[r].part)]
    /\ UNCHANGED <<now, parts, rank>>

\* ContestLeave.get when the profile is in the contest: profile.remove_contest()
Leave(u, c) ==
    /\ GetObject(parts, u, c, current[u]) = "ok"
    /\ ~(current[u] = NoPart \/ parts[current[u]].contest # c)
    /\ current' = [current EXCEPT ![u] = NoPart]
    /\ UNCHANGED <<now, parts, req, rank>>

JoinStep(r) ==
    \/ \E u \in Users, c \in Contests : Begin(r, u, c)
    \/ ReadMax(r)
    \/ Insert(r)
    \/ LiveGet(r)
    \/ LiveCreate(r)
    \/ LiveSave(r)
    \/ SetCurrent(r)

Next ==
    \/ Tick
    \/ \E r \in Reqs : JoinStep(r)
    \/ \E u \in Users, c \in Contests : Leave(u, c)

Spec == Init /\ [][Next]_vars

(***************************************************************************)
(* The race for virtual ids: contest 1 has ended, user 1 may or may not    *)
(* have taken part in it live, and NumRacers requests of user 1 to join it *)
(* are served by processes that are scheduled fairly.                      *)
(***************************************************************************)
Racers == 1..NumRacers

RaceInit ==
    /\ now = EndTime(1) + 1
    /\ parts \in {<<>>, <<NewPart(1, 1, 0, 0)>>}
    /\ current = [u \in Users |-> NoPart]
    /\ req = [r \in Racers |-> IdleReq]
    /\ subs = {}
    /\ out = NoOut
    /\ build = NoBuild

\* the steps of a handler that has entered the virtual branch
RaceStep(r) ==
    \/ ReadMax(r)
    \/ Insert(r)
    \/ SetCurrent(r)

RaceNext ==
    \/ \E r \in Racers : Begin(r, 1, 1)
    \/ \E r \in Racers : RaceStep(r)
    \/ Leave(1, 1)

SpecRace ==
    /\ RaceInit
    /\ [][RaceNext]_vars
    /\ \A r \in Racers : WF_vars(RaceStep(r))

(***************************************************************************)
(* Properties.                                                             *)
(***************************************************************************)
\* the virtual ids of the rows of (c, u), in the order of their insertion
RECURSIVE VirtualIdsUpTo(_, _, _, _)
VirtualIdsUpTo(ps, c, u, n) ==
    IF n = 0 THEN <<>>
    ELSE IF ps[n].contest = c /\ ps[n].user = u /\ ps[n].virtual # 0
         THEN Append(VirtualIdsUpTo(ps, c, u, n - 1), ps[n].virtual)
         ELSE VirtualIdsUpTo(ps, c, u, n - 1)

VirtualIds(ps, c, u) == VirtualIdsUpTo(ps, c, u, Len(ps))

\* the requests that have inserted their virtual participation
Inserted == {r \in DOMAIN req : req[r].part # NoPart}

C1_Safety ==
    /\ \A c \in Contests, u \in Users :
          LET vs == VirtualIds(parts, c, u)
          IN  \A k \in 1..Len(vs) : vs[k] = k
    /\ \A r \in DOMAIN req :
          req[r].pc = "done" => req[r].outcome \in {"joined", "AlreadyInContest"}
    /\ \A r \in DOMAIN req :
          req[r].pc = "done" /\ req[r].outcome = "joined" => r \in Inserted
    /\ \A r \in Inserted : parts[req[r].part].virtual >= 1
    /\ \A r, q \in Inserted : r # q => req[r].part # req[q].part
    /\ Len(VirtualIds(parts, 1, 1)) = Cardinality(Inserted)

\* C1: concurrent joins of an ended contest by one user all end by creating a
\* participation: a request in the virtual branch always comes to its end, no
\* request ends otherwise than joined (or turned away before the branch), each
\* creates a row of its own, and the virtual ids of the rows are 1, 2, ..., N in
\* the order of their insertion, without duplicate or gap.
C1_VirtualIdsContiguous ==
    /\ []C1_Safety
    /\ \A r \in Racers : (req[r].pc = "read") ~> (req[r].pc = "done")

\* all racers have joined, and the request received first got the last id
C1_Witness ==
    /\ \A r \in Racers : req[r].pc = "done" /\ req[r].outcome = "joined"
    /\ parts[req[1].part].virtual = NumRacers

\* C2: a (contest, user) pair never has more than one participation with
\* virtual = 0, whatever joins and leaves have run and however they interleave.
C2_AtMostOneLive ==
    \A c \in Contests, u \in Users : Cardinality(LiveRows(parts, c, u)) <= 1

\* two live joins of the same (contest, user) both missed the row in their get;
\* one has created it and the other is about to create
C2_Witness ==
    \E r, q \in Reqs :
        /\ req[r].pc = "live_save" /\ req[r].created
        /\ req[q].pc = "live_create"
        /\ req[q].user = req[r].user /\ req[q].contest = req[r].contest

\* C9: a live join that finds the profile's participation (it does not create
\* one) with its time used up answers TimeLimitExceeded, creates no
\* participation and leaves the profile's current participation as it was.
C9_TimeLimitExceeded ==
    [][\A r \in Reqs :
         (/\ req[r].pc = "live_save"
          /\ req'[r] # req[r]
          /\ ~req[r].created
          /\ PartEnded(parts[req[r].part], now))
         => /\ req'[r].pc = "done"
            /\ req'[r].outcome = "TimeLimitExceeded"
            /\ Len(parts') = Len(parts)
            /\ current' = current]_vars

\* a join was answered TimeLimitExceeded and the profile has no current participation
C9_Witness ==
    \E r \in Reqs :
        /\ req[r].pc = "done" /\ req[r].outcome = "TimeLimitExceeded"
        /\ \A u \in Users : current[u] = NoPart

\* C10 as stated: a join is answered AlreadyInContest exactly when the
\* profile's current participation is in another contest, and changes nothing then.
C10_OnlyOtherContest ==
    [][\A r \in Reqs, u \in Users, c \in Contests :
         (Begin(r, u, c) /\ GetObject(parts, u, c, current[u]) = "ok" /\ CanJoin(c, now))
         => /\ req'[r].outcome = "AlreadyInContest"
                <=> (current[u] # NoPart /\ parts[current[u]].contest # c)
            /\ req'[r].outcome = "AlreadyInContest"
                => parts' = parts /\ current' = current]_vars

\* C10 amended: a join of a contest the user may see and that has started is
\* answered AlreadyInContest exactly when the profile has a current
\* participation, in this contest or in another; nothing is created and the
\* current participation is unchanged then.
C10_AnyCurrentContest ==
    [][\A r \in Reqs, u \in Users, c \in Contests :
         Begin(r, u, c)
         => /\ req'[r].outcome = "AlreadyInContest"
                <=> /\ GetObject(parts, u, c, current[u]) = "ok"
                    /\ CanJoin(c, now)
                    /\ current[u] # NoPart
            /\ req'[r].outcome = "AlreadyInContest"
                => parts' = parts /\ current' = current]_vars

\* a join was answered AlreadyInContest
C10_Witness ==
    \E r \in Reqs : req[r].pc = "done" /\ req[r].outcome = "AlreadyInContest"

(***************************************************************************)
(* The ranking. Python values that may stand in one another's place are    *)
(* records tagged with their type.                                         *)
(***************************************************************************)
\* request.user.is_authenticated() is false
Anonymous == 0

NoneVal == [type |-> "None"]
Str(x) == [type |-> "str", s |-> x]
Num(x) == [type |-> "int", n |-> x]
Tuple2(a, b) == [type |-> "tuple", rank |-> a, item |-> b]
List(xs) == [type |-> "list", items |-> xs]
\* a generator or chain object: what iterating over it yields
Iter(xs) == [type |-> "iterator", items |-> xs]

\* contest.contest_problems ... order_by('order'): id, problem.code, points
Problems(c) ==
    IF c = 1
    THEN << [id |-> 7, code |-> "A", points |-> 2],
            [id |-> 5, code |-> "B", points |-> 1] >>
    ELSE <<>>

\* ContestParticipation.start
PartStart(p) == p.real_start

best_solution_state(points, total) ==
    IF points = 0 THEN "failed-score"
    ELSE IF points = total THEN "full-score"
    ELSE "patial-score"

\* a plausible slip: the time counted from the contest's start
CellTimeFromContest(last, p) == last - StartTime(p.contest)

\* data[part, prob][2] - participation.start
CellTime(last, p) == last - PartStart(p)

BestSolutionData(code, points, time, state) ==
    [type |-> "BestSolutionData", code |-> code, points |-> points,
     time |-> time, state |-> state]

make_contest_ranking_profile(p, problems) ==
    [type |-> "ContestRankingProfile", id |-> p.user, points |-> p.score,
     cumtime |-> p.cumtime, problems |-> problems]

\* a plausible slip: spectators not filtered out
RankedWithSpectators(ps, c) ==
    {i \in Ids(ps) : ps[i].contest = c /\ ps[i].virtual = 0}

\* WHERE part.contest_id = %s AND part.virtual = 0 AND part.spectate = 0
Ranked(ps, c) ==
    {i \in Ids(ps) : ps[i].contest = c /\ ps[i].virtual = 0 /\ ps[i].spectate = FALSE}

\* the contest submissions of a participation on a contest problem
SubsOf(ss, part, prob) == {x \in ss : x.part = part /\ x.problem = prob}

\* a plausible slip: the points of the latest submission instead of the best
AggregatedLatest(ss, part, cp) ==
    LET S == SubsOf(ss, part, cp.id)
        d == SetMax({x.date : x \in S})
    IN  IF S = {} THEN [found |-> FALSE, code |-> cp.code]
        ELSE [found |-> TRUE, code |-> cp.code,
              best |-> SetMax({x.points : x \in {y \in S : y.date = d}}),
              last |-> d]

\* one row of the aggregation: code, MAX(cs.points), MAX(sub.date); the outer
\* joins give a row without best and last to a pair without submission
Aggregated(ss, part, cp) ==
    LET S == SubsOf(ss, part, cp.id)
    IN  IF S = {} THEN [found |-> FALSE, code |-> cp.code]
        ELSE [found |-> TRUE, code |-> cp.code,
              best |-> SetMax({x.points : x \in S}),
              last |-> SetMax({x.date : x \in S})]

\* settings.TIME_ZONE is 'UTC', the zone in which the store keeps its dates:
\* its offset to the store's zone
TzOffset == 0

\* make_aware(last, tz): the instant of a date read as local time of tz
make_aware(last) == last - TzOffset

\* data = {(part, prob): (code, best, last and make_aware(last, tz))}
RankingData(ps, ss, c) ==
    LET Aware(d) == IF d.found THEN [d EXCEPT !.last = make_aware(d.last)] ELSE d
    IN
    [k \in Ranked(ps, c) \X {Problems(c)[j].id : j \in 1..Len(Problems(c))} |->
        Aware(Aggregated(ss, k[1], CHOOSE cp \in {Problems(c)[j] : j \in 1..Len(Problems(c))} :
                                       cp.id = k[2]))]

\* contest_ranking_list.make_ranking_profile
make_ranking_profile(ps, data, c, i) ==
    make_contest_ranking_profile(ps[i],
        [j \in 1..Len(Problems(c)) |->
            LET cp == Problems(c)[j]
                d == data[<<i, cp.id>>]
            IN  IF d.found
                THEN BestSolutionData(d.code, d.best, CellTime(d.last, ps[i]),
                                      best_solution_state(d.best, cp.points))
                ELSE NoneVal])

\* the sequences that hold every element of S once
RECURSIVE Perms(_)
Perms(S) ==
    IF S = {} THEN {<<>>}
    ELSE UNION {{<<x>> \o q : q \in Perms(S \ {x})} : x \in S}

\* a plausible slip: ordered by the score alone
InOrderByScore(a, b) == a.score >= b.score

\* order_by('-score', 'cumtime') allows row a right before row b
InOrder(a, b) == a.score > b.score \/ (a.score = b.score /\ a.cumtime <= b.cumtime)

\* the orders in which the store may return
\* contest.users.filter(spectate=False, virtual=0).order_by('-score', 'cumtime'):
\* rows that are equal in score and cumtime come in any order
RowOrders(ps, c) ==
    {o \in Perms(Ranked(ps, c)) :
        \A k \in 1..(Len(o) - 1) : InOrder(ps[o[k]], ps[o[k + 1]])}

contest_ranking_list(ps, ss, c, order) ==
    LET data == RankingData(ps, ss, c)
    IN  [k \in 1..Len(order) |-> make_ranking_profile(ps, data, c, order[k])]

\* a plausible slip: a cell for every attempted problem only, so that the
\* cells are not at their problems' positions
ProfileOfAttempted(ps, ss, c, i) ==
    LET Cell(j) ==
            LET cp == Problems(c)[j]
                d == Aggregated(ss, i, cp)
            IN  IF d.found
                THEN BestSolutionData(d.code, d.best, CellTime(d.last, ps[i]),
                                      best_solution_state(d.best, cp.points))
                ELSE NoneVal
        IsCell(x) == x # NoneVal
    IN  make_contest_ranking_profile(ps[i],
            SelectSeq([j \in 1..Len(Problems(c)) |-> Cell(j)], IsCell))

get_participation_ranking_profile(ps, ss, c, i) ==
    make_contest_ranking_profile(ps[i],
        [j \in 1..Len(Problems(c)) |->
            LET cp == Problems(c)[j]
                d == Aggregated(ss, i, cp)
            IN  IF d.found
                THEN BestSolutionData(d.code, d.best, CellTime(d.last, ps[i]),
                                      best_solution_state(d.best, cp.points))
                ELSE NoneVal])

\* a plausible slip: ranking by the points alone
RankKeyPoints(p) == <<p.points>>

\* key=attrgetter('points', 'cumtime')
RankKey(p) == <<p.points, p.cumtime>>

\* judge.utils.ranker.ranker: one pass; an item whose key equals the key before
\* it shares its rank, the next key gets the rank plus the items since
RECURSIVE RankerFrom(_, _, _, _, _)
RankerFrom(items, k, rnk, delta, last) ==
    IF k > Len(items) THEN <<>>
    ELSE LET new == RankKey(items[k])
             changed == ~last.set \/ new # last.key
             r == IF changed THEN rnk + delta ELSE rnk
             d == (IF changed THEN 0 ELSE delta) + 1
         IN  <<Tuple2(Num(r), items[k])>>
                 \o RankerFrom(items, k + 1, r, d, [set |-> TRUE, key |-> new])

ranker(items) == RankerFrom(items, 1, 0, 1, [set |-> FALSE, key |-> <<>>])

\* get_contest_ranking_list(request, contest, participation=None)
get_contest_ranking_list(ps, ss, cur, c, viewer, order) ==
    LET users == ranker(contest_ranking_list(ps, ss, c, order))
        mine == IF viewer # Anonymous THEN cur[viewer] ELSE NoPart
        participation == IF mine = NoPart \/ ps[mine].contest # c THEN NoPart ELSE mine
    IN  IF participation # NoPart /\ ps[participation].virtual # 0
        THEN Iter(<<Str("-"), get_participation_ranking_profile(ps, ss, c, participation)>>)
        ELSE Iter(users)

\* _find_contest(request, key): the contest exists
FindContest(u, c) ==
    ~(/\ ~IsPublic(c)
      /\ ~HasPerm(u, "judge.see_private_contest")
      /\ (~HasPerm(u, "judge.edit_own_contest") \/ u \notin Organizers(c)))

\* contest_ranking_view's own test
MaySeeRanking(u, c, t) ==
    HasPerm(u, "judge.see_private_contest") \/ (IsPublic(c) /\ ~(StartTime(c) > t))

\* users, problems = get_contest_ranking_list(...): the unpacking of an
\* iterable succeeds when it yields two values
Rendered(view, viewer, c, listed, result) ==
    [view |-> view, viewer |-> viewer, contest |-> c, listed |-> listed,
     result |-> result,
     status |-> IF Len(result.items) = 2 THEN "rendered" ELSE "ValueError",
     users |-> IF Len(result.items) = 2 THEN result.items[1] ELSE NoneVal,
     problems |-> IF Len(result.items) = 2 THEN result.items[2] ELSE NoneVal]

Refused(view, viewer, c, status) ==
    [view |-> view, viewer |-> viewer, contest |-> c, listed |-> <<>>,
     result |-> NoneVal, status |-> status, users |-> NoneVal, problems |-> NoneVal]

\* one ranking is asked for, and may be asked for again
Asked(view, viewer, c) ==
    out.status # "none" => (out.view = view /\ out.viewer = viewer /\ out.contest = c)

\* contest_ranking(request, contest)
ContestRanking(viewer, c) ==
    /\ Asked("contest_ranking", viewer, c)
    /\ \E order \in RowOrders(parts, c) :
         out' = IF ~FindContest(viewer, c) THEN Refused("contest_ranking", viewer, c, "404")
                ELSE IF ~MaySeeRanking(viewer, c, now)
                     THEN Refused("contest_ranking", viewer, c, "404")
                ELSE Rendered("contest_ranking", viewer, c,
                              contest_ranking_list(parts, subs, c, order),
                              get_contest_ranking_list(parts, subs, current, c, viewer, order))
    /\ UNCHANGED <<now, parts, current, req, subs, build>>

\* contest_ranking_ajax(request, contest)
ContestRankingAjax(viewer, c) ==
    /\ Asked("contest_ranking_ajax", viewer, c)
    /\ \E order \in RowOrders(parts, c) :
         out' = IF ~FindContest(viewer, c)
                THEN Refused("contest_ranking_ajax", viewer, c, "BadRequest")
                ELSE Rendered("contest_ranking_ajax", viewer, c,
                              contest_ranking_list(parts, subs, c, order),
                              get_contest_ranking_list(parts, subs, current, c, viewer, order))
    /\ UNCHANGED <<now, parts, current, req, subs, build>>

RankNext ==
    \/ \E viewer \in Users \cup {Anonymous}, c \in {1, 3} : ContestRanking(viewer, c)
    \/ \E viewer \in Users \cup {Anonymous}, c \in {1, 3} : ContestRankingAjax(viewer, c)

CellsNext ==
    \E viewer \in {Anonymous, 1} : ContestRanking(viewer, 1)

(***************************************************************************)
(* Stores for the ranking: contest 1 has ended; every user has taken part  *)
(* in it live, as a spectator, or not at all; user 1 may also have a       *)
(* virtual participation in it and a participation in contest 2, and may   *)
(* be in any of its participations.                                        *)
(***************************************************************************)
LiveRow(u, sp, st, k) ==
    [contest |-> 1, user |-> u, virtual |-> 0, spectate |-> sp,
     real_start |-> st, score |-> k[1], cumtime |-> k[2]]

LiveChoices(u, keys, starts, spectators) ==
    {<<>>} \cup {<<LiveRow(u, FALSE, st, k)>> : st \in starts, k \in keys}
           \cup (IF spectators THEN {<<LiveRow(u, TRUE, 0, <<0, 0>>)>>} ELSE {})

OtherChoices(u, spectators) ==
    IF u = 1
    THEN LET v == [NewPart(1, 1, 1, EndTime(1) + 1) EXCEPT !.score = 1]
             o == [NewPart(2, 1, 0, StartTime(2)) EXCEPT !.spectate = TRUE]
         IN  {<<>>, <<v>>} \cup (IF spectators THEN {<<o>>, <<v, o>>} ELSE {})
    ELSE {<<>>}

RECURSIVE Stores(_, _, _, _)
Stores(n, keys, starts, spectators) ==
    IF n = 0 THEN {<<>>}
    ELSE {s \o l \o v : s \in Stores(n - 1, keys, starts, spectators),
                        l \in LiveChoices(n, keys, starts, spectators),
                        v \in OtherChoices(n, spectators)}

\* the sets of at most n elements of S
RECURSIVE UpTo(_, _)
UpTo(S, n) ==
    IF n = 0 THEN {{}}
    ELSE UpTo(S, n - 1) \cup {T \cup {x} : T \in UpTo(S, n - 1), x \in S}

\* a submission is made while its participation runs
Dates(p) == IF p.virtual = 0 THEN {1, 2} ELSE {3, 4}

Submissions(ps) ==
    UNION {{[part |-> i, problem |-> cp.id, points |-> x, date |-> d] :
               x \in 0..cp.points, d \in Dates(ps[i])} :
           i \in {i \in Ids(ps) : ps[i].contest = 1},
           cp \in {Problems(1)[j] : j \in 1..Len(Problems(1))}}

StoreInit(n, keys, starts, spectators, maxSubs) ==
    /\ now = EndTime(1) + 1
    /\ parts \in Stores(n, keys, starts, spectators)
    /\ \E i \in {NoPart} \cup RowsOfUser(parts, 1) :
           current = [u \in Users |-> IF u = 1 THEN i ELSE NoPart]
    /\ req = <<>>
    /\ subs \in UpTo(Submissions(parts), maxSubs)
    /\ out = NoOut
    /\ build = NoBuild

\* number of users on the leaderboard
NumRankUsers == 3
\* number of contest submissions in the store
MaxSubs == 2

\* leaderboards of many participants
SpecRank ==
    StoreInit(NumRankUsers, {0, 1} \X {0, 1}, {0}, TRUE, 0) /\ [][RankNext]_vars

\* leaderboards of participants with submissions
SpecCells ==
    StoreInit(2, {<<1, 0>>}, {0, 1}, FALSE, MaxSubs) /\ [][CellsNext]_vars

(***************************************************************************)
(* Properties of the ranking.                                              *)
(***************************************************************************)
\* get_contest_ranking_list was called for the ranking in out
Served(o) == o.status \in {"rendered", "ValueError"}

\* the viewer's current participation is a virtual one in the ranked contest
VirtualViewer(o) ==
    /\ o.viewer # Anonymous
    /\ current[o.viewer] # NoPart
    /\ parts[current[o.viewer]].contest = o.contest
    /\ parts[current[o.viewer]].virtual # 0

IsTuple(x) == x.type = "tuple"
IsNumericRow(x) == x.type = "tuple" /\ x.rank.type = "int"
IsOtherItem(x) == ~IsNumericRow(x)
IsProfile(x) == x.type = "ContestRankingProfile"

Range(f) == {f[k] : k \in DOMAIN f}

\* the profiles of the ranking in out, each with the participation it stands for
ProfilesOf(o) ==
    {<<CHOOSE i \in LiveRows(parts, o.contest, x.item.id) : TRUE, x.item>> :
        x \in {y \in Range(o.result.items) : IsNumericRow(y)}}
    \cup {<<current[o.viewer], x>> : x \in {y \in Range(o.result.items) : IsProfile(y)}}

\* C3: for a viewer whose current participation in the contest is virtual the
\* result holds the numerically ranked rows that a viewer without current
\* participation gets, same participants, ranks and order, and beside them
\* exactly one row, the viewer's own standing under the rank '-'.
C3_OwnRowBesideRanking ==
    (Served(out) /\ VirtualViewer(out)) =>
        \E order \in RowOrders(parts, out.contest) :
            LET items == out.result.items
                own == get_participation_ranking_profile(parts, subs, out.contest,
                                                         current[out.viewer])
                base == get_contest_ranking_list(parts, subs, [u \in Users |-> NoPart],
                                                 out.contest, out.viewer, order).items
            IN  /\ SelectSeq(items, IsNumericRow) = base
                /\ SelectSeq(items, IsOtherItem) = <<Tuple2(Str("-"), own)>>

\* C4: a cell is null exactly when its (participation, problem) pair has no
\* submission; otherwise its state is failed-score for a best score of 0,
\* full-score for the problem's points and partial-score for anything else, in
\* the ranked rows and in the viewer's own profile.
C4_CellStates ==
    Served(out) =>
        \A e \in ProfilesOf(out) : \A j \in 1..Len(Problems(out.contest)) :
            LET cp == Problems(out.contest)[j]
                S == SubsOf(subs, e[1], cp.id)
                cell == e[2].problems[j]
                p == SetMax({x.points : x \in S})
            IN  IF S = {} THEN cell = NoneVal
                ELSE /\ cell.type = "BestSolutionData"
                     /\ cell.state = IF p = 0 THEN "failed-score"
                                     ELSE IF p = cp.points THEN "full-score"
                                     ELSE "partial-score"

\* C5: the ranker leaves the sorted rows as they are and in their order, gives
\* rank 1 to the first, the rank of the row before to a row with the same
\* (points, cumtime), and rank r + k to the row that follows a run of k rows of
\* rank r.
C5_RankerLabels ==
    (Served(out) /\ ~VirtualViewer(out)) =>
        LET rows == out.result.items
            key(i) == <<rows[i].item.points, rows[i].item.cumtime>>
            RunStart(i) == CHOOSE j \in 1..i :
                               /\ \A m \in j..i : key(m) = key(i)
                               /\ j = 1 \/ key(j - 1) # key(i)
        IN  /\ Len(rows) = Len(out.listed)
            /\ \A i \in 1..Len(rows) : IsNumericRow(rows[i]) /\ rows[i].item = out.listed[i]
            /\ Len(rows) >= 1 => rows[1].rank.n = 1
            /\ \A i \in 2..Len(rows) :
                  IF key(i) = key(i - 1)
                  THEN rows[i].rank.n = rows[i - 1].rank.n
                  ELSE rows[i].rank.n = rows[RunStart(i - 1)].rank.n + (i - RunStart(i - 1))

\* three rows ranked 1, 1, 3
C5_Witness ==
    /\ Served(out) /\ ~VirtualViewer(out)
    /\ Len(out.result.items) = 3
    /\ out.result.items[1].rank.n = 1
    /\ out.result.items[2].rank.n = 1
    /\ out.result.items[3].rank.n = 3

\* the latest submission date of a pair that has submissions
LastDate(i, prob) == SetMax({x.date : x \in SubsOf(subs, i, prob)})

\* the cells of the ranking in out that are not null: participation, problem, cell
CellsOf(o) ==
    {<<e[1], Problems(o.contest)[j].id, e[2].problems[j]>> :
        e \in ProfilesOf(o), j \in 1..Len(Problems(o.contest))}
    \ {<<e[1], Problems(o.contest)[j].id, NoneVal>> :
        e \in ProfilesOf(o), j \in 1..Len(Problems(o.contest))}

\* C6: the time of a cell is the pair's latest submission date minus the start
\* of the row's own participation, in the ranked rows and in the viewer's own
\* profile; cells of the same date differ in time as their participations'
\* starts differ.
C6_ElapsedFromOwnStart ==
    Served(out) =>
        /\ \A x \in CellsOf(out) :
              /\ SubsOf(subs, x[1], x[2]) # {}
              /\ x[3].time = LastDate(x[1], x[2]) - PartStart(parts[x[1]])
        /\ \A x, y \in CellsOf(out) :
              LastDate(x[1], x[2]) = LastDate(y[1], y[2])
                  => x[3].time - y[3].time = PartStart(parts[y[1]]) - PartStart(parts[x[1]])

\* two cells of the same date whose participations started at different times,
\* neither at the contest's start
C6_Witness ==
    /\ Served(out)
    /\ \E x, y \in CellsOf(out) :
          /\ LastDate(x[1], x[2]) = LastDate(y[1], y[2])
          /\ PartStart(parts[x[1]]) # PartStart(parts[y[1]])
          /\ PartStart(parts[x[1]]) # StartTime(out.contest)

\* C7: asked again of an unchanged store by the same viewer, the ranking is
\* the same, the order of rows equal in score and cumtime included.
C7_SameRankingAgain ==
    [][(/\ Served(out) /\ Served(out')
        /\ out'.view = out.view /\ out'.viewer = out.viewer /\ out'.contest = out.contest
        /\ parts' = parts /\ subs' = subs /\ current' = current)
       => out'.result = out.result]_vars

\* C8: get_contest_ranking_list hands its callers the ranked rows and the
\* contest's problem list, which they unpack as (users, problems).
C8_UsersAndProblems ==
    Served(out) =>
        /\ out.status = "rendered"
        /\ out.users.type = "iterator"
        /\ \A k \in 1..Len(out.users.items) : IsTuple(out.users.items[k])
        /\ out.problems = List(Problems(out.contest))

(***************************************************************************)
(* Leaving, with the handler's answer kept: at a time when contests 1 and  *)
(* 2 are both running, requests of user 1 to join one of them and requests *)
(* of any user to leave any contest.                                       *)
(***************************************************************************)
\* number of join and leave requests served in one behaviour
NumLeaveReqs == 3

LeaveReqs == 1..NumLeaveReqs

\* a plausible slip: only a profile outside every contest is turned away
NoCurrentContest(ps, cur, c) == cur = NoPart

\* profile.current_contest is None or profile.current_contest.contest_id != contest.id
NotInContest(ps, cur, c) == cur = NoPart \/ ps[cur].contest # c

\* profile.remove_contest()
RemoveContest(cur, u) == [cur EXCEPT ![u] = NoPart]

\* ContestLeave.get
ContestLeave(r, u, c) ==
    /\ req[r].pc = "idle"
    /\ \A q \in DOMAIN req : q < r => req[q].pc # "idle"
    /\ LET cur == current[u]
           access == GetObject(parts, u, c, cur)
           outcome == IF access # "ok" THEN access
                      ELSE IF NotInContest(parts, cur, c) THEN "NotInContest"
                      ELSE "left"
       IN  /\ req' = [req EXCEPT ![r] = Done(outcome, NoPart)]
           /\ current' = IF outcome = "left" THEN RemoveContest(current, u) ELSE current
    /\ UNCHANGED <<now, parts, rank>>

LeaveInit ==
    /\ now = StartTime(2)
    /\ parts = <<>>
    /\ current = [u \in Users |-> NoPart]
    /\ req = [r \in LeaveReqs |-> IdleReq]
    /\ subs = {}
    /\ out = NoOut
    /\ build = NoBuild

\* the steps of a handler that has entered the live branch
LiveStep(r) ==
    \/ LiveGet(r)
    \/ LiveCreate(r)
    \/ LiveSave(r)
    \/ SetCurrent(r)

LeaveNext ==
    \/ \E r \in LeaveReqs, c \in {1, 2} : Begin(r, 1, c)
    \/ \E r \in LeaveReqs : LiveStep(r)
    \/ \E r \in LeaveReqs, u \in Users, c \in Contests : ContestLeave(r, u, c)

SpecLeave == LeaveInit /\ [][LeaveNext]_vars

\* C11: leaving a contest the user may see is answered NotInContest, with the
\* store and the current participation unchanged, when the profile has no
\* current participation or its current participation is in another contest;
\* otherwise it clears the profile's current participation and touches no
\* participation. A later live join finds the (contest, user)'s participation
\* with virtual = 0 and takes it, without creating one.
C11_LeaveKeepsParticipation ==
    [][/\ \A r \in LeaveReqs, u \in Users, c \in Contests :
            ContestLeave(r, u, c) =>
                /\ parts' = parts
                /\ \A v \in Users : v # u => current'[v] = current[v]
                /\ IF GetObject(parts, u, c, current[u]) # "ok"
                   THEN /\ req'[r].outcome \in {"Http404", "PrivateContestError"}
                        /\ current' = current
                   ELSE IF current[u] = NoPart \/ parts[current[u]].contest # c
                   THEN /\ req'[r].outcome = "NotInContest"
                        /\ current' = current
                   ELSE /\ req'[r].outcome = "left"
                        /\ current'[u] = NoPart
       /\ \A r \in LeaveReqs :
            (/\ req[r].pc \in {"live_get", "live_create"}
             /\ req'[r] # req[r]
             /\ LiveRows(parts, req[r].contest, req[r].user) # {})
            => /\ parts' = parts
               /\ req'[r].pc = "live_save"
               /\ ~req'[r].created
               /\ req'[r].part \in LiveRows(parts, req[r].contest, req[r].user)
       /\ \A r \in LeaveReqs :
            (req[r].pc = "set_current" /\ req'[r] # req[r])
            => current'[req[r].user] = req[r].part /\ req'[r].part = req[r].part
      ]_vars

\* a live join, a leave and a second live join that took the same participation
C11_Witness ==
    /\ req[1].outcome = "joined" /\ req[2].outcome = "left" /\ req[3].outcome = "joined"
    /\ req[1].part = req[3].part
    /\ parts[req[1].part].virtual = 0
    /\ Len(parts) = 1
    /\ current[1] = req[3].part

(***************************************************************************)
(* Leaderboards over stores that hold ranked, spectating and virtual       *)
(* participations of contest 1, each with submissions of its own.          *)
(***************************************************************************)
BoardNext == ContestRanking(Anonymous, 1)

SpecBoard ==
    StoreInit(2, {<<1, 0>>}, {0}, TRUE, MaxSubs) /\ [][BoardNext]_vars

\* the participations whose submissions must not count
Unranked(c) ==
    {i \in Ids(parts) : parts[i].contest = c /\ (parts[i].virtual # 0 \/ parts[i].spectate)}

\* C12: every numerically ranked row stands for a participation of the contest
\* with virtual = 0 and spectate = false, and each of its cells is null when
\* that participation has no submission on the problem and otherwise reports
\* points and a date found among that participation's own submissions, whatever
\* virtual or spectating participations have submitted.
C12_OnlyLiveRowsAndSubmissions ==
    Served(out) =>
        \A k \in 1..Len(out.result.items) :
            LET x == out.result.items[k]
            IN  IsNumericRow(x) =>
                    \E i \in Ids(parts) :
                        /\ parts[i].contest = out.contest
                        /\ parts[i].user = x.item.id
                        /\ parts[i].virtual = 0
                        /\ parts[i].spectate = FALSE
                        /\ i \notin Unranked(out.contest)
                        /\ \A j \in 1..Len(Problems(out.contest)) :
                              LET S == SubsOf(subs, i, Problems(out.contest)[j].id)
                                  cell == x.item.problems[j]
                              IN  IF S = {} THEN cell = NoneVal
                                  ELSE /\ cell # NoneVal
                                       /\ cell.points \in {y.points : y \in S}
                                       /\ cell.time + PartStart(parts[i]) \in {y.date : y \in S}

\* a ranked row with a cell was served from a store in which a spectating or
\* virtual participation has a submission on the same problem
C12_Witness ==
    /\ Served(out)
    /\ \E k \in 1..Len(out.result.items), j \in 1..Len(Problems(out.contest)) :
          /\ IsNumericRow(out.result.items[k])
          /\ out.result.items[k].item.problems[j] # NoneVal
          /\ \E i \in Unranked(out.contest) :
                /\ parts[i].spectate
                /\ SubsOf(subs, i, Problems(out.contest)[j].id) # {}

(***************************************************************************)
(* The build of the leaderboard in its two queries, while users join       *)
(* contest 1 live and submit: contest_ranking_list first reads the         *)
(* aggregation into data, then maps make_ranking_profile over the          *)
(* participations that the second query returns.                           *)
(***************************************************************************)
\* the ids of the contest's problems
ProblemIds(c) == {Problems(c)[j].id : j \in 1..Len(Problems(c))}

\* a submission of the user's current participation is judged
Submit(u, j, x) ==
    /\ current[u] # NoPart
    /\ parts[current[u]].contest = 1
    /\ Cardinality(subs) < MaxSubs
    /\ subs' = subs \cup {[part |-> current[u], problem |-> Problems(1)[j].id,
                           points |-> x, date |-> now]}
    /\ UNCHANGED <<now, parts, current, req, out, build>>

\* cursor.execute(...); data = {(part, prob): (code, best, last) ...}
AggregateQuery(c) ==
    /\ build.pc = "idle"
    /\ build' = [build EXCEPT !.pc = "aggregated", !.contest = c,
                              !.data = RankingData(parts, subs, c)]
    /\ UNCHANGED <<now, parts, current, req, subs, out>>

\* data[part, prob] raises KeyError for a pair that data does not hold
KeyError(data, order, c) ==
    \E k \in 1..Len(order), prob \in ProblemIds(c) : <<order[k], prob>> \notin DOMAIN data

\* map(make_ranking_profile, contest.users.filter(...).order_by(...))
ParticipantQuery ==
    /\ build.pc = "aggregated"
    /\ \E order \in RowOrders(parts, build.contest) :
         build' = IF KeyError(build.data, order, build.contest)
                  THEN [build EXCEPT !.pc = "done", !.fault = "KeyError"]
                  ELSE [build EXCEPT !.pc = "done",
                           !.rows = [k \in 1..Len(order) |->
                                       make_ranking_profile(parts, build.data,
                                                            build.contest, order[k])]]
    /\ UNCHANGED <<now, parts, current, req, subs, out>>

BuildNext ==
    \/ \E r \in Reqs, u \in Users : Begin(r, u, 1)
    \/ \E r \in Reqs : LiveStep(r)
    \/ \E u \in Users, j \in 1..Len(Problems(1)), x \in 0..1 : Submit(u, j, x)
    \/ AggregateQuery(1)
    \/ ParticipantQuery

SpecBuild == Init /\ [][BuildNext]_vars

\* C13: a build of the leaderboard that runs while users join and submit ends
\* without a fault, and a ranked participation that the aggregation did not
\* see is listed with null cells.
C13_BuildNeverRaises ==
    build.pc = "done" =>
        /\ build.fault = "none"
        /\ Len(build.rows) = Cardinality(Ranked(parts, build.contest))
        /\ \A k \in 1..Len(build.rows) :
              LET i == CHOOSE i \in Ranked(parts, build.contest) :
                           parts[i].user = build.rows[k].id
              IN  (\E prob \in ProblemIds(build.contest) : <<i, prob>> \notin DOMAIN build.data)
                      => \A j \in 1..Len(Problems(build.contest)) :
                             build.rows[k].problems[j] = NoneVal

\* C14: in the virtual branch an insert is only ever attempted right after a
\* read, with the id (largest virtual id of the (contest, user) at that read, or
\* 0) + 1; an insert that loses on the uniqueness of its id creates nothing and
\* sends the request back to the read, so that the lost id is not tried again
\* as it is.
C14_FreshReadEachAttempt ==
    [][\A r \in Racers :
         LET c == req[r].contest
             u == req[r].user
             vs == {parts[i].virtual : i \in RowsOf(parts, c, u)}
             fresh == (IF vs = {} THEN 0 ELSE SetMax(vs)) + 1
             taken == \E i \in RowsOf(parts, c, u) : parts[i].virtual = req[r].vid
         IN  /\ (req[r].pc = "read" /\ req'[r] # req[r])
                 => /\ req'[r].pc = "insert"
                    /\ req'[r].vid = fresh
                    /\ parts' = parts
             /\ (req'[r].pc = "insert" /\ req'[r] # req[r]) => req[r].pc = "read"
             /\ (req[r].pc = "insert" /\ req'[r] # req[r])
                 => IF taken
                    THEN parts' = parts /\ req'[r].pc = "read"
                    ELSE /\ Len(parts') = Len(parts) + 1
                         /\ parts'[Len(parts')].virtual = req[r].vid
                         /\ req'[r].pc = "set_current"]_vars

\* a request has lost an insert and is back at the read, still holding the id
\* that another request's participation has taken
C14_Witness ==
    \E r \in Racers :
        /\ req[r].pc = "read"
        /\ req[r].vid # 0
        /\ \E i \in RowsOf(parts, req[r].contest, req[r].user) :
              parts[i].virtual = req[r].vid

\* C15: with NumRacers requests racing and every handler scheduled fairly, a
\* request that is in the retry loop always comes to its end having inserted a
\* virtual participation of its own: it answers "joined", never a failure.
C15_RetryLoopTerminates ==
    \A r \in Racers :
        (req[r].pc \in {"read", "insert"})
            ~> (/\ req[r].pc = "done"
                /\ req[r].outcome = "joined"
                /\ req[r].part \in Ids(parts)
                /\ parts[req[r].part].virtual >= 1)

\* a request has joined with the id that another request, back at the read,
\* has just lost
C15_Witness ==
    \E r, q \in Racers :
        /\ req[q].pc = "done" /\ req[q].outcome = "joined"
        /\ req[r].pc = "read"
        /\ req[r].vid = parts[req[q].part].virtual

\* C16: a cell of a (participation, problem) pair with submissions reports the
\* largest points of the pair's submissions and, as its time, the latest date
\* of the pair's submissions counted from the participation's start, each
\* taken over all of them: the time is the latest submission's even when that
\* submission scored less than the best. This holds of the ranked rows and of
\* the viewer's own profile.
C16_MaxPointsAndMaxDate ==
    Served(out) =>
        \A x \in CellsOf(out) :
            LET S == SubsOf(subs, x[1], x[2])
            IN  /\ S # {}
                /\ \E y \in S : x[3].points = y.points /\ \A z \in S : z.points <= y.points
                /\ \E y \in S : /\ x[3].time + PartStart(parts[x[1]]) = y.date
                                /\ \A z \in S : z.date <= y.date

\* a cell whose points come from an earlier submission than its time
C16_Witness ==
    /\ Served(out)
    /\ \E x \in CellsOf(out) : \E y, z \in SubsOf(subs, x[1], x[2]) :
          /\ y.date < z.date
          /\ y.points > z.points
          /\ x[3].points = y.points
          /\ x[3].time + PartStart(parts[x[1]]) = z.date

\* C17: the row that contest_ranking_list gives to a participation with
\* virtual = 0 and spectate = false is the profile that
\* get_participation_ranking_profile computes for it: the same code, points,
\* time and state, or the same null, at every position; and it has one cell for
\* each problem of the contest's ordered list, at the problem's position.
C17_SameRowOnBothPaths ==
    Served(out) =>
        \A k \in 1..Len(out.listed) :
            LET row == out.listed[k]
                i == CHOOSE i \in Ranked(parts, out.contest) : parts[i].user = row.id
                own == get_participation_ranking_profile(parts, subs, out.contest, i)
                ps == Problems(out.contest)
            IN  /\ Len(row.problems) = Len(ps)
                /\ Len(own.problems) = Len(ps)
                /\ \A j \in 1..Len(ps) :
                      /\ row.problems[j] = own.problems[j]
                      /\ own.problems[j] # NoneVal => own.problems[j].code = ps[j].code
                      /\ own.problems[j] = NoneVal <=> SubsOf(subs, i, ps[j].id) = {}
                /\ row.id = own.id /\ row.points = own.points /\ row.cumtime = own.cumtime

\* a row whose first problem is not attempted and whose second is
C17_Witness ==
    /\ Served(out)
    /\ \E k \in 1..Len(out.listed) :
          /\ out.listed[k].problems[1] = NoneVal
          /\ out.listed[k].problems[2] # NoneVal

\* C18: along the leaderboard a row has more points than the row after it, or
\* the same points and a cumtime that is not larger; so rows that are equal in
\* points and cumtime lie next to each other and the ranks never decrease.
C18_SortedByScoreThenCumtime ==
    (Served(out) /\ ~VirtualViewer(out)) =>
        LET rows == out.result.items
            n == Len(rows)
        IN  /\ \A k \in 1..(n - 1) :
                  LET a == rows[k].item
                      b == rows[k + 1].item
                  IN  /\ a.points > b.points \/ (a.points = b.points /\ a.cumtime <= b.cumtime)
                      /\ rows[k].rank.n <= rows[k + 1].rank.n
            /\ \A i, j \in 1..n :
                  (/\ i < j
                   /\ rows[i].item.points = rows[j].item.points
                   /\ rows[i].item.cumtime = rows[j].item.cumtime)
                  => \A k \in i..j : /\ rows[k].item.points = rows[i].item.points
                                     /\ rows[k].item.cumtime = rows[i].item.cumtime

\* three rows: two of equal points in the order of their cumtimes, then one of
\* fewer points and a smaller cumtime
C18_Witness ==
    /\ Served(out) /\ ~VirtualViewer(out)
    /\ Len(out.result.items) = 3
    /\ LET a == out.result.items[1].item
           b == out.result.items[2].item
           c == out.result.items[3].item
       IN  /\ a.points = b.points /\ a.cumtime < b.cumtime
           /\ b.points > c.points /\ b.cumtime > c.cumtime

(***************************************************************************)
(* The leaderboard of contest 2 while its organizer, user 1, and user 2    *)
(* join it live and leave it.                                              *)
(***************************************************************************)
OrganizerNext ==
    \/ \E r \in LeaveReqs, u \in Users : Begin(r, u, 2)
    \/ \E r \in LeaveReqs : LiveStep(r)
    \/ \E u \in Users : Leave(u, 2)
    \/ ContestRanking(Anonymous, 2)

SpecOrganizer == LeaveInit /\ [][OrganizerNext]_vars

\* the participations that a join has created and not yet saved
Unsaved == {req[r].part : r \in {q \in DOMAIN req : req[q].pc = "live_save" /\ req[q].created}}

\* C19: once the join that created it has saved it, a participation with
\* virtual = 0 is stored with spectate = true exactly when its user is an
\* organizer of its contest; and no ranked row of a leaderboard ever stands
\* for an organizer of the contest.
C19_OrganizerNeverRanked ==
    /\ \A i \in Ids(parts) \ Unsaved :
          parts[i].virtual = 0
              => (parts[i].spectate <=> parts[i].user \in Organizers(parts[i].contest))
    /\ Served(out) =>
          \A k \in 1..Len(out.result.items) :
              IsNumericRow(out.result.items[k])
                  => out.result.items[k].item.id \notin Organizers(out.contest)

\* the answers of a join that are errors
JoinErrors ==
    {"Http404", "PrivateContestError", "NotOngoing", "AlreadyInContest", "TimeLimitExceeded"}

\* C20: the step by which a join request ends in an error leaves every
\* participation, the spectate flags included, and every profile's current
\* participation as they were; the steps before it, which only read, do so too.
C20_ErrorsChangeNothing ==
    [][\A r \in Reqs :
         /\ (/\ req[r].pc # "done"
             /\ req'[r].pc = "done"
             /\ req'[r].outcome \in JoinErrors)
            => parts' = parts /\ current' = current
         /\ (req[r].pc = "live_get" /\ req'[r] # req[r])
            => parts' = parts /\ current' = current]_vars

====
